---- MODULE Spec2Model ----
(***************************************************************************)
(* scripts/experiments/generate-experiment-matrix.py as a state machine.   *)
(*                                                                         *)
(* The script is one module body: a literal table bms of five dicts, then  *)
(* a dispatch on len(sys.argv).  Python objects live on a heap and lists   *)
(* hold references, so "bm.copy()" and "tmp['runNumber'] = x" are modelled *)
(* on references: a list is a sequence of references into heap, a dict is  *)
(* a function from its keys to its values.  Every statement of the module  *)
(* body is one action; pc names the line about to be executed.             *)
(*                                                                         *)
(* An argument is a sequence of characters.  int() is modelled by what it  *)
(* does on such a sequence (strip, sign, digits with single underscores).  *)
(* json.dumps is modelled as the value it serialises: the dicts the list's *)
(* references point to at the time of the call, in list order.             *)
(*                                                                         *)
(* The process is started NumExecs times with the same argument list, one  *)
(* execution after the other, each from a fresh interpreter state.         *)
(***************************************************************************)
EXTENDS Integers, Sequences, FiniteSets, TLC

\* ------------------------------------------------------------------ bounds
\* Total number of characters over all positional arguments.
MaxArgChars == 3
\* Largest number of positional arguments.
MaxArgs == 2
\* Largest run count an execution is started with.
MaxRun == 2
\* Executions started with the same argument list.
NumExecs == 2

\* The characters arguments are drawn from: digits, the minus sign, white
\* space and a letter.
Chars == {"0", "1", "2", "-", " ", "a"}

\* ----------------------------------------------------------- python values
\* A name that is not bound yet (bm, tmp before the first iteration).
NoRef == 0
\* The loop variable x before the first iteration of the outer loop.
Unbound == -1

\* The literal of lines 4-15, one dict per element.
BmsLiteral ==
  << [id |-> "ant",
      class |-> "edu.berkeley.cs.jqf.examples.ant.ProjectBuilderTest",
      method |-> "testWithSplitGenerator",
      coveragePackages |-> "org/apache/tools/ant/*"],
     [id |-> "bcel",
      class |-> "edu.berkeley.cs.jqf.examples.bcel.ParserTest",
      method |-> "testWithSplitGenerator",
      coveragePackages |-> "org/apache/bcel/*"],
     [id |-> "closure",
      class |-> "edu.berkeley.cs.jqf.examples.closure.CompilerTest",
      method |-> "testWithSplitGenerator",
      coveragePackages |-> "com/google/javascript/jscomp/*"],
     [id |-> "maven",
      class |-> "edu.berkeley.cs.jqf.examples.maven.ModelReaderTest",
      method |-> "testWithSplitGenerator",
      coveragePackages |-> "org/apache/maven/model/*"],
     [id |-> "rhino",
      class |-> "edu.berkeley.cs.jqf.examples.rhino.CompilerTest",
      method |-> "testWithSplitGenerator",
      coveragePackages |->
        "org/mozilla/javascript/optimizer/*:org/mozilla/javascript/CodeGenerator*"] >>

\* ------------------------------------------------------------------ int()
IsSpace(c) == c = " "

DigitChars == <<"0", "1", "2", "3", "4", "5", "6", "7", "8", "9">>

IsDigit(c) == \E k \in 1..Len(DigitChars) : DigitChars[k] = c

DigitVal(c) == (CHOOSE k \in 1..Len(DigitChars) : DigitChars[k] = c) - 1

RECURSIVE LStrip(_)
LStrip(s) == IF s # <<>> /\ IsSpace(Head(s)) THEN LStrip(Tail(s)) ELSE s

RECURSIVE RStrip(_)
RStrip(s) ==
  IF s # <<>> /\ IsSpace(s[Len(s)]) THEN RStrip(SubSeq(s, 1, Len(s) - 1)) ELSE s

\* The literal without its sign.
Unsigned(t) == IF t # <<>> /\ Head(t) \in {"+", "-"} THEN Tail(t) ELSE t

\* Digits, with single underscores allowed between two digits.
ValidDigits(d) ==
  /\ d # <<>>
  /\ \A k \in 1..Len(d) :
       \/ IsDigit(d[k])
       \/ /\ d[k] = "_"
          /\ 1 < k
          /\ k < Len(d)
          /\ IsDigit(d[k - 1])
          /\ IsDigit(d[k + 1])

RECURSIVE Magnitude(_, _)
Magnitude(d, acc) ==
  IF d = <<>> THEN acc
  ELSE IF Head(d) = "_" THEN Magnitude(Tail(d), acc)
  ELSE Magnitude(Tail(d), 10 * acc + DigitVal(Head(d)))

\* int(s) with the sign dropped.
PyIntAbs(s) ==
  LET d == Unsigned(RStrip(LStrip(s)))
  IN  [ok |-> ValidDigits(d), val |-> IF ValidDigits(d) THEN Magnitude(d, 0) ELSE 0]

\* int(s) that falls back to 0 where int raises.
PyIntLenient(s) ==
  LET t == RStrip(LStrip(s))
      d == Unsigned(t)
      m == IF ValidDigits(d) THEN Magnitude(d, 0) ELSE 0
  IN  [ok |-> TRUE, val |-> IF t # <<>> /\ Head(t) = "-" THEN 0 - m ELSE m]

\* int(s): ok is FALSE where int raises ValueError.
PyInt(s) ==
  LET t == RStrip(LStrip(s))
      d == Unsigned(t)
      m == IF ValidDigits(d) THEN Magnitude(d, 0) ELSE 0
  IN  [ok |-> ValidDigits(d),
       val |-> IF t # <<>> /\ Head(t) = "-" THEN 0 - m ELSE m]

\* --------------------------------------------------------- dicts and lists
\* d[k] = v on a dict.
DictSetItem(d, k, v) ==
  [key \in DOMAIN d \cup {k} |-> IF key = k THEN v ELSE d[key]]

\* "tmp = bm" in place of "tmp = bm.copy()": no new dict.
DictAlias(h, r) == [heap |-> h, ref |-> r]

\* bm.copy(): a new dict with the same items; the heap after it and the
\* reference to the new dict.
DictCopy(h, r) == [heap |-> Append(h, h[r]), ref |-> Len(h) + 1]

\* configs.insert(0, e) in place of configs.append(e).
ListPrepend(l, e) == <<e>> \o l

\* configs.append(e).
ListAppend(l, e) == Append(l, e)

\* A list iterator that stops one element early.
ListIterShort(l, idx) == idx < Len(l) - 1

\* Whether a list iterator at position idx has a next element.
ListIterHasNext(l, idx) == idx < Len(l)

\* Iteration in an order that is not fixed: the position is counted from
\* either end of the list.
UnorderedIterYield(l, idx) == {l[idx + 1], l[Len(l) - idx]}

\* The elements a list iterator at position idx may yield next: the one at
\* that position.
ListIterYield(l, idx) == {l[idx + 1]}

\* range(1, n + 1) in place of range(n).
RangeFromOne(n) == [next |-> 1, stop |-> n + 1]

\* range(n + 1) in place of range(n).
RangeInclusive(n) == [next |-> 0, stop |-> n + 1]

\* iter(range(n)).
Range(n) == [next |-> 0, stop |-> n]

RangeHasNext(r) == r.next < r.stop

\* json.dumps({'config': l}): the dicts the list refers to, in list order.
JsonDumps(h, l) == [config |-> [k \in 1..Len(l) |-> h[l[k]]]]

\* len(sys.argv) <= 2.
ReplicatedModeLe(a) == Len(a) + 1 <= 2

\* len(sys.argv) >= 2.
ReplicatedModeGe(a) == Len(a) + 1 >= 2

\* len(sys.argv) == 2, sys.argv being the script name and the arguments.
ReplicatedMode(a) == Len(a) + 1 = 2

\* ------------------------------------------------------------------ inputs
RECURSIVE Strings(_)
Strings(n) ==
  IF n = 0 THEN {<<>>}
  ELSE LET shorter == Strings(n - 1)
       IN  shorter \cup {Append(s, c) : s \in {t \in shorter : Len(t) = n - 1}, c \in Chars}

RECURSIVE ArgLists(_, _)
ArgLists(n, budget) ==
  IF n = 0 THEN {<<>>}
  ELSE {<<>>} \cup
       UNION {{<<t>> \o rest : rest \in ArgLists(n - 1, budget - Len(t))} :
                t \in Strings(budget)}

\* The run count stays within MaxRun.
Runnable(a) ==
  (Len(a) = 1 /\ PyInt(a[1]).ok) => PyInt(a[1]).val <= MaxRun

\* -------------------------------------------------------------------- state
VARIABLES
  args,      \* sys.argv[1:]
  run,       \* which execution of the process this is
  prev,      \* how the previous execution ended and what it wrote
  pc,        \* the line about to be executed, "done" or "error"
  bms,       \* the list bms: references to the built-in dicts
  heap,      \* the dicts, by reference
  configs,   \* the list configs
  rng,       \* the iterator of range(int(sys.argv[1]))
  x,         \* the outer loop variable
  it,        \* the position of the iterator of "for bm in bms"
  bm,        \* the inner loop variable
  tmp,       \* the copy being tagged
  stdout,    \* what print wrote, one element per print
  nAppend    \* how many times line 23 ran in this execution

vars == <<args, run, prev, pc, bms, heap, configs, rng, x, it, bm, tmp, stdout, nAppend>>

\* The references of the list bms after lines 4-15.
BmsRefs == [k \in 1..Len(BmsLiteral) |-> k]

\* An iterator of range that was not created yet.
NoRange == [next |-> 0, stop |-> 0]

Init ==
  /\ args \in {a \in ArgLists(MaxArgs, MaxArgChars) : Runnable(a)}
  /\ run = 1
  /\ prev = [outcome |-> "none", stdout |-> <<>>]
  /\ pc = "L17"
  /\ heap = BmsLiteral
  /\ bms = BmsRefs
  /\ configs = <<>>
  /\ rng = NoRange
  /\ x = Unbound
  /\ it = 0
  /\ bm = NoRef
  /\ tmp = NoRef
  /\ stdout = <<>>
  /\ nAppend = 0

\* ------------------------------------------------------------------ actions
\* line 17: if(len(sys.argv) == 2)
Dispatch ==
  /\ pc = "L17"
  /\ pc' = IF ReplicatedMode(args) THEN "L18" ELSE "L26"
  /\ UNCHANGED <<args, run, prev, bms, heap, configs, rng, x, it, bm, tmp, stdout, nAppend>>

\* line 18: configs = []
InitConfigs ==
  /\ pc = "L18"
  /\ configs' = <<>>
  /\ pc' = "L19"
  /\ UNCHANGED <<args, run, prev, bms, heap, rng, x, it, bm, tmp, stdout, nAppend>>

\* line 19, the iterable: range(int(sys.argv[1])).  sys.argv[1] raises
\* IndexError without a first argument, int raises ValueError.
EvalRange ==
  /\ pc = "L19"
  /\ IF Len(args) >= 1 /\ PyInt(args[1]).ok
       THEN /\ rng' = Range(PyInt(args[1]).val)
            /\ pc' = "L19for"
       ELSE /\ rng' = rng
            /\ pc' = "error"
  /\ UNCHANGED <<args, run, prev, bms, heap, configs, x, it, bm, tmp, stdout, nAppend>>

\* line 19, the loop header: for x in ...
OuterNext ==
  /\ pc = "L19for"
  /\ IF RangeHasNext(rng)
       THEN /\ x' = rng.next
            /\ rng' = [rng EXCEPT !.next = @ + 1]
            /\ it' = 0
            /\ pc' = "L20"
       ELSE /\ pc' = "L24"
            /\ UNCHANGED <<x, rng, it>>
  /\ UNCHANGED <<args, run, prev, bms, heap, configs, bm, tmp, stdout, nAppend>>

\* line 20: for bm in bms
InnerNext ==
  /\ pc = "L20"
  /\ IF ListIterHasNext(bms, it)
       THEN /\ \E r \in ListIterYield(bms, it) : bm' = r
            /\ it' = it + 1
            /\ pc' = "L21"
       ELSE /\ pc' = "L19for"
            /\ UNCHANGED <<bm, it>>
  /\ UNCHANGED <<args, run, prev, bms, heap, configs, rng, x, tmp, stdout, nAppend>>

\* line 21: tmp = bm.copy()
Copy ==
  /\ pc = "L21"
  /\ heap' = DictCopy(heap, bm).heap
  /\ tmp' = DictCopy(heap, bm).ref
  /\ pc' = "L22"
  /\ UNCHANGED <<args, run, prev, bms, configs, rng, x, it, bm, stdout, nAppend>>

\* line 22: tmp['runNumber'] = x
Tag ==
  /\ pc = "L22"
  /\ heap' = [heap EXCEPT ![tmp] = DictSetItem(@, "runNumber", x)]
  /\ pc' = "L23"
  /\ UNCHANGED <<args, run, prev, bms, configs, rng, x, it, bm, tmp, stdout, nAppend>>

\* line 23: configs.append(tmp)
AppendTmp ==
  /\ pc = "L23"
  /\ configs' = ListAppend(configs, tmp)
  /\ nAppend' = nAppend + 1
  /\ pc' = "L20"
  /\ UNCHANGED <<args, run, prev, bms, heap, rng, x, it, bm, tmp, stdout>>

\* line 24: print(json.dumps({'config':configs}))
PrintReplicated ==
  /\ pc = "L24"
  /\ stdout' = Append(stdout, JsonDumps(heap, configs))
  /\ pc' = "done"
  /\ UNCHANGED <<args, run, prev, bms, heap, configs, rng, x, it, bm, tmp, nAppend>>

\* line 26: print(json.dumps({'config': bms}))
PrintPlain ==
  /\ pc = "L26"
  /\ stdout' = Append(stdout, JsonDumps(heap, bms))
  /\ pc' = "done"
  /\ UNCHANGED <<args, run, prev, bms, heap, configs, rng, x, it, bm, tmp, nAppend>>

\* The process has exited; it is started again with the same arguments.
Restart ==
  /\ pc \in {"done", "error"}
  /\ run < NumExecs
  /\ run' = run + 1
  /\ prev' = [outcome |-> pc, stdout |-> stdout]
  /\ pc' = "L17"
  /\ heap' = BmsLiteral
  /\ bms' = BmsRefs
  /\ configs' = <<>>
  /\ rng' = NoRange
  /\ x' = Unbound
  /\ it' = 0
  /\ bm' = NoRef
  /\ tmp' = NoRef
  /\ stdout' = <<>>
  /\ nAppend' = 0
  /\ UNCHANGED args

Next ==
  \/ Dispatch
  \/ InitConfigs
  \/ EvalRange
  \/ OuterNext
  \/ InnerNext
  \/ Copy
  \/ Tag
  \/ AppendTmp
  \/ PrintReplicated
  \/ PrintPlain
  \/ Restart

Spec == Init /\ [][Next]_vars

\* The interpreter runs the module body to its end: a statement that can run
\* does run.
FairSpec == Spec /\ WF_vars(Next)

\* The exit status of a finished process: 1 after an uncaught exception.
ExitCode == IF pc = "error" THEN 1 ELSE 0

Terminated == pc \in {"done", "error"}

\* ------------------------------------------------------------ the contract
\* The fixed benchmark set of the specification, in its order.
SpecTable ==
  << [id |-> "ant",
      class |-> "edu.berkeley.cs.jqf.examples.ant.ProjectBuilderTest",
      method |-> "testWithSplitGenerator",
      coveragePackages |-> "org/apache/tools/ant/*"],
     [id |-> "bcel",
      class |-> "edu.berkeley.cs.jqf.examples.bcel.ParserTest",
      method |-> "testWithSplitGenerator",
      coveragePackages |-> "org/apache/bcel/*"],
     [id |-> "closure",
      class |-> "edu.berkeley.cs.jqf.examples.closure.CompilerTest",
      method |-> "testWithSplitGenerator",
      coveragePackages |-> "com/google/javascript/jscomp/*"],
     [id |-> "maven",
      class |-> "edu.berkeley.cs.jqf.examples.maven.ModelReaderTest",
      method |-> "testWithSplitGenerator",
      coveragePackages |-> "org/apache/maven/model/*"],
     [id |-> "rhino",
      class |-> "edu.berkeley.cs.jqf.examples.rhino.CompilerTest",
      method |-> "testWithSplitGenerator",
      coveragePackages |->
        "org/mozilla/javascript/optimizer/*:org/mozilla/javascript/CodeGenerator*"] >>

BaseFields == {"id", "class", "method", "coveragePackages"}

\* Descriptor d of the specification tagged with run number n.
Tagged(d, n) ==
  [id |-> d.id, class |-> d.class, method |-> d.method,
   coveragePackages |-> d.coveragePackages, runNumber |-> n]

\* The argument reads as an integer: white space around an optional sign and
\* a digit group that starts and ends with a digit and has no two adjacent
\* underscores.
DenotesInteger(tok) ==
  \E i \in 1..Len(tok) : \E j \in i..Len(tok) :
    /\ \A k \in 1..Len(tok) : (k < i \/ k > j) => tok[k] = " "
    /\ LET f == IF tok[i] \in {"+", "-"} THEN i + 1 ELSE i
       IN  /\ f <= j
           /\ IsDigit(tok[f])
           /\ IsDigit(tok[j])
           /\ \A k \in f..j : IsDigit(tok[k]) \/ tok[k] = "_"
           /\ \A k \in f..(j - 1) : ~(tok[k] = "_" /\ tok[k + 1] = "_")

DigitsOf(tok) == SelectSeq(tok, IsDigit)

HasMinus(tok) == \E k \in 1..Len(tok) : tok[k] = "-"

IsZero(tok) == DenotesInteger(tok) /\ \A k \in 1..Len(tok) : IsDigit(tok[k]) => tok[k] = "0"

\* The argument reads as the integer n, for 0 <= n <= 9.
Denotes(tok, n) ==
  /\ DenotesInteger(tok)
  /\ LET d == DigitsOf(tok)
     IN  /\ d[Len(d)] = DigitChars[n + 1]
         /\ \A k \in 1..(Len(d) - 1) : d[k] = "0"
  /\ HasMinus(tok) => n = 0

\* The argument reads as an integer below zero.
DenotesNegative(tok) == DenotesInteger(tok) /\ HasMinus(tok) /\ ~IsZero(tok)

\* The config sequence written to standard output.
Out == stdout[1].config

\* The interpreter is inside the replication loop of lines 19-23.
InLoop == pc \in {"L19for", "L20", "L21", "L22", "L23"}

\* ------------------------------------------------------------------ claims
\* C1: with a single argument that reads as N >= 0, the process ends with
\* exit status 0 and a config sequence of exactly 5*N entries; for each x in
\* [0, N) exactly five entries carry runNumber = x, one for each descriptor
\* of the fixed set with that descriptor's id, class, method and
\* coveragePackages, and no entry has any other field or run number.  For
\* N = 0 the config sequence is empty.
C1_ReplicatedCount ==
  \A N \in 0..9 :
    (Terminated /\ Len(args) = 1 /\ Denotes(args[1], N)) =>
      /\ pc = "done"
      /\ Len(stdout) = 1
      /\ Len(Out) = 5 * N
      /\ N = 0 => Out = <<>>
      /\ \A k \in 1..Len(Out) :
           /\ DOMAIN Out[k] = BaseFields \cup {"runNumber"}
           /\ Out[k].runNumber \in 0..(N - 1)
      /\ \A n \in 0..(N - 1) :
           /\ Cardinality({k \in 1..Len(Out) : Out[k].runNumber = n}) = 5
           /\ \A d \in 1..Len(SpecTable) :
                Cardinality({k \in 1..Len(Out) : Out[k] = Tagged(SpecTable[d], n)}) = 1

C1_Witness ==
  /\ pc = "done"
  /\ Len(args) = 1
  /\ Denotes(args[1], 2)
  /\ Len(stdout) = 1
  /\ Len(Out) = 10

\* C2: in replicated mode the output is run-major: the entry at position
\* 5*x + i (counted from 0) is descriptor i of the fixed set (ant, bcel,
\* closure, maven, rhino) tagged runNumber = x, so run numbers never decrease
\* along the sequence and run x comes wholly before run x + 1.
C2_RunMajor ==
  \A N \in 0..9 :
    (pc = "done" /\ Len(args) = 1 /\ Denotes(args[1], N)) =>
      /\ Len(stdout) = 1
      /\ \A n \in 0..(N - 1) : \A i \in 0..4 :
           /\ 5 * n + i + 1 <= Len(Out)
           /\ Out[5 * n + i + 1] = Tagged(SpecTable[i + 1], n)
      /\ \A j \in 1..Len(Out) : \A k \in j..Len(Out) :
           Out[j].runNumber <= Out[k].runNumber

C2_Witness ==
  /\ pc = "done"
  /\ Len(args) = 1
  /\ Denotes(args[1], 2)
  /\ Len(stdout) = 1
  /\ Len(Out) = 10
  /\ Out[5].runNumber = 0
  /\ Out[6].runNumber = 1
  /\ Out[6].id = "ant"

\* C3: without a positional argument the config sequence is exactly the five
\* descriptors of the fixed set in their order, none with a runNumber field.
C3_PlainMatrix ==
  (Terminated /\ args = <<>>) =>
    /\ pc = "done"
    /\ Len(stdout) = 1
    /\ Len(Out) = 5
    /\ \A k \in 1..5 : DOMAIN Out[k] = BaseFields /\ Out[k] = SpecTable[k]

C3_Witness ==
  /\ pc = "done"
  /\ args = <<>>
  /\ Len(stdout) = 1
  /\ Len(Out) = 5

C5_NegativeFails ==
  (Terminated /\ Len(args) = 1 /\ DenotesNegative(args[1])) =>
    /\ pc = "error"
    /\ ExitCode # 0
    /\ stdout = <<>>

\* C5, amended: with a single argument that reads as a negative integer the
\* process does not fail: the range is empty, line 23 never runs, and the
\* process exits with status 0 after writing an empty config sequence.
C5_NegativeEmpty ==
  (Len(args) = 1 /\ DenotesNegative(args[1])) =>
    /\ pc # "error"
    /\ nAppend = 0
    /\ configs = <<>>
    /\ Terminated =>
         /\ pc = "done"
         /\ ExitCode = 0
         /\ Len(stdout) = 1
         /\ Out = <<>>

C5_Witness ==
  /\ pc = "done"
  /\ args = << <<"-", "1">> >>
  /\ Len(stdout) = 1
  /\ Out = <<>>

\* C6: there is no partial output.  Standard output holds nothing while the
\* process runs and after an error, and exactly one write, the whole matrix
\* (a multiple of five entries, each with the four descriptor fields), once
\* the process is done.  With a single argument that does not read as an
\* integer the process ends in the error outcome with a non-zero exit status
\* and standard output is empty throughout.
C6_NoPartialOutput ==
  /\ Len(stdout) <= 1
  /\ pc # "done" => stdout = <<>>
  /\ pc = "done" =>
       /\ Len(stdout) = 1
       /\ Len(Out) % 5 = 0
       /\ \A k \in 1..Len(Out) : BaseFields \subseteq DOMAIN Out[k]
  /\ (Len(args) = 1 /\ ~DenotesInteger(args[1])) =>
       /\ pc # "done"
       /\ stdout = <<>>
       /\ pc \in {"L17", "L18", "L19", "error"}
       /\ Terminated => (pc = "error" /\ ExitCode # 0)

C6_Witness ==
  /\ pc = "error"
  /\ args = << <<"a", "a", "a">> >>
  /\ ExitCode = 1
  /\ stdout = <<>>
  /\ run = 2
  /\ prev.outcome = "error"

\* C7: the built-in table is constant.  In every state the list bms holds the
\* same five references and each refers to a dict with exactly the fields
\* id, class, method and coveragePackages at their initial values; tagging a
\* copy never reaches a built-in dict.
C7_TableConstant ==
  /\ bms = <<1, 2, 3, 4, 5>>
  /\ \A k \in 1..5 :
       /\ DOMAIN heap[bms[k]] = BaseFields
       /\ heap[bms[k]] = SpecTable[k]

C7_Witness ==
  /\ pc = "L23"
  /\ x = 1
  /\ it = 5
  /\ "runNumber" \in DOMAIN heap[tmp]
  /\ heap[tmp].runNumber = 1
  /\ heap[tmp].id = heap[bm].id

C9_RunsToCompletion ==
  /\ <>[](run = NumExecs /\ Terminated)
  /\ [](Terminated =>
          \/ pc = "done" /\ Len(stdout) = 1
          \/ pc = "error" /\ stdout = <<>>)
  /\ [](\A N \in 0..9 :
          (Len(args) = 1 /\ Denotes(args[1], N)) =>
            /\ nAppend <= 5 * N
            /\ pc # "error"
            /\ pc \in {"L24", "done"} => nAppend = 5 * N
            /\ pc = "done" => Len(stdout) = 1)
  /\ [][Len(stdout') > Len(stdout) =>
          /\ Len(stdout') = 1
          /\ pc' = "done"
          /\ nAppend' = nAppend]_vars

C9_Witness ==
  /\ pc = "done"
  /\ run = NumExecs
  /\ Len(args) = 1
  /\ nAppend = 10
  /\ Len(stdout) = 1

\* The dicts the list configs refers to, in list order.
ConfigsNow == [k \in 1..Len(configs) |-> heap[configs[k]]]

\* C10: entries already appended are independent of later loop steps.  Inside
\* the replication the list under construction has length 5*x + i (x the
\* current run index, i the descriptors already handled in this run); no two
\* entries share a dict, and none shares one with the built-in table; entry
\* k carries the run number it was appended with; within an execution no
\* step removes, moves or changes an entry, so the list is at every point a
\* prefix of the list printed; and every (id, runNumber) pair occurs exactly
\* once in the final output.
C10_AppendedEntriesStable ==
  /\ [](/\ pc = "L19for" => Len(configs) = 5 * rng.next
        /\ pc = "L20" => Len(configs) = 5 * x + it
        /\ pc \in {"L21", "L22", "L23"} => Len(configs) = 5 * x + (it - 1)
        /\ \A j \in 1..Len(configs) :
             /\ \A k \in 1..Len(configs) : configs[j] = configs[k] => j = k
             /\ \A b \in 1..Len(bms) : configs[j] # bms[b]
             /\ DOMAIN heap[configs[j]] = BaseFields \cup {"runNumber"}
             /\ heap[configs[j]].runNumber = (j - 1) \div 5
        /\ (pc = "done" /\ Len(args) = 1) =>
             /\ Out = ConfigsNow
             /\ \A d \in 1..Len(SpecTable) : \A n \in 0..((Len(Out) \div 5) - 1) :
                  Cardinality({k \in 1..Len(Out) :
                                 Out[k].id = SpecTable[d].id /\ Out[k].runNumber = n}) = 1
             /\ \A j \in 1..Len(Out) : \A k \in 1..Len(Out) :
                  (Out[j].id = Out[k].id /\ Out[j].runNumber = Out[k].runNumber) => j = k)
  /\ [][run' = run =>
          /\ Len(configs') >= Len(configs)
          /\ \A k \in 1..Len(configs) :
               /\ configs'[k] = configs[k]
               /\ heap'[configs'[k]] = heap[configs[k]]
          /\ Len(configs') > Len(configs) =>
               /\ Len(configs') = Len(configs) + 1
               /\ heap'[configs'[Len(configs')]].runNumber = x]_vars

C10_Witness ==
  /\ pc = "L22"
  /\ x = 1
  /\ it = 3
  /\ Len(configs) = 7
  /\ heap[configs[7]].id = "bcel"
  /\ heap[configs[7]].runNumber = 1

====
